---- MODULE Spec2Model ----
(***************************************************************************)
(* Queue + scheduled-publish engine of bot.py.                             *)
(*                                                                         *)
(* The table "queue" of queue.db is a set of rows; every aiosqlite call    *)
(* that is awaited is a point where another coroutine of the event loop    *)
(* (another slot's publish_next, a message handler, /purge) may run, so    *)
(* dequeue() is two steps (SELECT head, then DELETE + commit), and         *)
(* publish_next is a small program counter per slot.                       *)
(*                                                                         *)
(* Strings are sequences of characters, an optional value is a set of at   *)
(* most one element ({} is None).                                          *)
(***************************************************************************)
EXTENDS Integers, Sequences, FiniteSets, TLC

\* ------------------------------------------------------------------ bounds

NumSlots == 2        \* number of entries of DAILY_SLOTS that are modelled
MaxSubmit == 2       \* inbound submissions that are enqueued
MaxId == 4           \* largest id the table hands out in the model
MaxLimit == 3        \* largest small n peek_many is called with
MaxUpdates == 2      \* updates whose handler is followed step by step

NetworkBackoff == 5  \* asyncio.sleep(5) of the network branch

Slots == 1..NumSlots
Ids == 1..MaxId

\* ------------------------------------------------------------------ values

None == {}
Some(x) == {x}
The(o) == CHOOSE x \in o : TRUE

TextX == <<"X">>
Ref1 == <<"r", "1">>
Ref2 == <<"r", "2">>
Cap1 == <<"c">>
Empty == <<>>

\* update.message.text of the modelled text messages
Texts == { <<" ">>, <<"X">>, <<"X", " ">> }
\* update.message.caption of the modelled photo and video messages
PhotoCaptions == { Some(Cap1) }
VideoCaptions == { None }
\* e.retry_after of the modelled flood-control errors
Waits == { 1, 3 }

\* ---------------------------------------------------------- pure helpers

IsSpace(c) == c \in {" ", "\n", "\t"}

RECURSIVE LStrip(_)
LStrip(s) == IF s # <<>> /\ IsSpace(Head(s)) THEN LStrip(Tail(s)) ELSE s

RECURSIVE RStrip(_)
RStrip(s) ==
    IF s # <<>> /\ IsSpace(s[Len(s)]) THEN RStrip(SubSeq(s, 1, Len(s) - 1)) ELSE s

\* str.strip()
Strip(s) == RStrip(LStrip(s))

\* Python's  x or ""  : None and the empty string both give ""
OrEmpty(o) == IF o = None \/ o = Some(Empty) THEN Empty ELSE CHOOSE c \in o : TRUE

SetMax(S) == CHOOSE x \in S : \A y \in S : y <= x
SetMin(S) == CHOOSE x \in S : \A y \in S : x <= y

\* ------------------------------------------------------- transport errors

\* telegram.error classes the except clauses name, and a plain Exception
Raised == { "RetryAfter", "TimedOut", "Exception" }

\* the classes an exception is an instance of (isinstance)
Bases(cls) ==
    CASE cls = "RetryAfter"   -> { "RetryAfter", "TelegramError", "Exception" }
      [] cls = "TimedOut"     -> { "TimedOut", "NetworkError", "TelegramError", "Exception" }
      [] cls = "NetworkError" -> { "NetworkError", "TelegramError", "Exception" }
      [] OTHER                -> { "Exception" }

\* what the transport call can do: return, or raise one of Raised
Errors ==
    { [cls |-> "RetryAfter", wait |-> w] : w \in Waits }
        \cup { [cls |-> c, wait |-> 0] : c \in Raised \ { "RetryAfter" } }

\* the except clauses without the final  except Exception
ExceptClausesNoCatchAll ==
    << { "RetryAfter" }, { "TimedOut", "NetworkError" } >>

\* the except clauses of publish_next, in source order
ExceptClauses ==
    << { "RetryAfter" }, { "TimedOut", "NetworkError" }, { "Exception" } >>

\* index of the first clause that catches e, 0 when none does
Handler(e) ==
    LET hit == { i \in 1..Len(ExceptClauses) : Bases(e.cls) \cap ExceptClauses[i] # {} }
    IN  IF hit = {} THEN 0 ELSE SetMin(hit)

\* delay = int(e.retry_after), without the + 1
BackoffNoExtra(e) ==
    CASE Handler(e) = 1 -> Some(e.wait)
      [] Handler(e) = 2 -> Some(NetworkBackoff)
      [] OTHER          -> None

\* the asyncio.sleep of the clause that caught e: None when it does not sleep
Backoff(e) ==
    CASE Handler(e) = 1 -> Some(e.wait + 1)
      [] Handler(e) = 2 -> Some(NetworkBackoff)
      [] OTHER          -> None

\* ------------------------------------------------------------------ store

KnownKinds == { "text", "photo", "video" }

\* A row of table queue. orig is not a column: it names the submission the
\* row stems from (0: a row the file held before this model starts), and
\* travels with kind/payload/caption through a re-enqueue.
Row(id, kind, payload, caption, orig) ==
    [id |-> id, kind |-> kind, payload |-> payload, caption |-> caption, orig |-> orig]

Content(r) == [kind |-> r.kind, payload |-> r.payload, caption |-> r.caption]

IdsOf(tbl) == { r.id : r \in tbl }

\* id INTEGER PRIMARY KEY without AUTOINCREMENT: one more than the largest
\* id the table holds now
NextRowidNoAutoincrement(tbl, sq) == IF tbl = {} THEN 1 ELSE SetMax(IdsOf(tbl)) + 1

\* id INTEGER PRIMARY KEY AUTOINCREMENT: one more than the largest id the
\* table ever held (sqlite_sequence), not than the largest id it holds now
NextRowid(tbl, sq) == SetMax({ sq } \cup IdsOf(tbl)) + 1

\* SELECT ... ORDER BY id DESC LIMIT 1
SelectNewest(tbl) ==
    IF tbl = {} THEN None
    ELSE Some(CHOOSE r \in tbl : \A q \in tbl : r.id >= q.id)

\* SELECT ... ORDER BY id ASC LIMIT 1
SelectHead(tbl) ==
    IF tbl = {} THEN None
    ELSE Some(CHOOSE r \in tbl : \A q \in tbl : r.id <= q.id)

\* DELETE FROM queue WHERE id = ?
DeleteId(tbl, id) == { r \in tbl : r.id # id }

\* queue.db as found at process start: no rows, or one row written by
\* another writer of the same table whose kind publish_next does not know
LegacyRow == Row(1, "audio", Ref1, Empty, 0)
InitialFiles == { {}, { LegacyRow } }

\* ----------------------------------------------------------------- config

Token == <<"t">>
Handle == <<"@", "c">>

\* the environments the process is started in
Envs ==
    [ token : { None, Some(Empty), Some(Token) },
      channel : { None, Some(Empty), Some(Handle) },
      channel_id : { None, Some(Empty), Some(<<"0">>), Some(<<"-", "1", "0">>), Some(<<"x">>) } ]

\* the environment of the runs that are about the queue only
DefaultEnv == [ token |-> Some(Token), channel |-> Some(Handle), channel_id |-> None ]

\* truth value of an optional string: None and "" are false
Truthy(o) == o # None /\ o # Some(Empty)

Digits == <<"0", "1", "2", "3", "4", "5", "6", "7", "8", "9">>

IsDigits(str) == str # <<>> /\ \A i \in 1..Len(str) : \E d \in 1..Len(Digits) : Digits[d] = str[i]

DigitVal(c) == (CHOOSE d \in 1..Len(Digits) : Digits[d] = c) - 1

RECURSIVE ParseNat(_)
ParseNat(str) ==
    IF str = <<>> THEN 0
    ELSE ParseNat(SubSeq(str, 1, Len(str) - 1)) * 10 + DigitVal(str[Len(str)])

\* int(str): None stands for ValueError
ParseInt(str) ==
    IF IsDigits(str) THEN Some(ParseNat(str))
    ELSE IF str # <<>> /\ str[1] = "-" /\ IsDigits(Tail(str)) THEN Some(0 - ParseNat(Tail(str)))
    ELSE None

\* CHANNEL_ID = int(CHANNEL_ID_ENV) if CHANNEL_ID_ENV else None
ChannelId(e) == IF Truthy(e.channel_id) THEN ParseInt(The(e.channel_id)) ELSE None

\* the int() of that line raises ValueError
ChannelIdRaises(e) == Truthy(e.channel_id) /\ ParseInt(The(e.channel_id)) = None

\* TARGET_CHAT with the numeric id first
TargetChatIdFirst(e) ==
    IF ChannelId(e) # None THEN Some([form |-> "id", v |-> The(ChannelId(e))])
    ELSE IF Truthy(e.channel) THEN Some([form |-> "handle", v |-> The(e.channel)])
    ELSE None

\* TARGET_CHAT = CHANNEL if CHANNEL else CHANNEL_ID
TargetChat(e) ==
    IF Truthy(e.channel) THEN Some([form |-> "handle", v |-> The(e.channel)])
    ELSE IF ChannelId(e) # None THEN Some([form |-> "id", v |-> The(ChannelId(e))])
    ELSE None

\* a start-up without the  if not TARGET_CHAT  check
TargetAlwaysSet(t) == TRUE

\* not (not TARGET_CHAT): None and the id 0 are false
TargetSet(t) == t # None /\ (The(t).form = "id" => The(t).v # 0)

\* the module-level code runs to its end: no SystemExit, no ValueError
Configured(e) == Truthy(e.token) /\ ~ChannelIdRaises(e) /\ TargetSet(TargetChat(e))

\* DROP TABLE + CREATE TABLE
DbInitRecreate(exists, tbl) == {}

\* db_init(): CREATE TABLE IF NOT EXISTS queue, commit: the rows of an
\* existing table stay, a new table has none
DbInit(exists, tbl) == IF exists THEN tbl ELSE {}

\* the updates whose handling is followed step by step
Updates == 1..MaxUpdates

VARIABLES
    up,         \* the process is running (main has run db_init and build_app)
    store,      \* committed rows of table queue
    seq,        \* sqlite_sequence.seq of table queue
    pc,         \* per slot: position of its publish_next invocation
    item,       \* per slot: the row its dequeue() read (None or Some(row))
    exc,        \* per slot: the exception its transport call raised
    slept,      \* per slot: time spent so far in asyncio.sleep
    nsub,       \* number of submissions enqueued so far
    ret,        \* history: id -> number of dequeue() calls that returned it
    delivered,  \* history: origs a transport call has delivered
    published,  \* history: origs logged as published
    purged,     \* history: origs of rows removed by purge()
    escaped,    \* history: slots whose publish_next let an exception out
    assigned,   \* history: every id an INSERT has been given
    peeked,     \* what the last peek_many call returned (None: no call yet)
    env,        \* os.environ: TG_BOT_TOKEN, TG_CHANNEL, TG_CHANNEL_ID
    stage,      \* how far a starting process has come: none, config, db, aborted
    schema,     \* queue.db holds table queue
    target,     \* TARGET_CHAT of the running process (None: not set)
    hnd         \* per update: the h_text / h_photo / h_video call handling it

vars ==
    << up, store, seq, pc, item, exc, slept, nsub,
       ret, delivered, published, purged, escaped, assigned,
       peeked, env, stage, schema, target, hnd >>

\* the environment and the state of the start-up code
boot == << env, stage, schema, target >>

\* what the queue and publish_next code neither reads nor writes
aux == << peeked, boot, hnd >>

\* what a peek or a start-up step neither reads nor writes
core == << pc, item, exc, slept, nsub, ret, delivered, published, purged, escaped, assigned >>

hist == << ret, delivered, published, purged, escaped >>

Origs == 0..MaxSubmit

InitQueue ==
    /\ up = FALSE
    /\ store \in InitialFiles
    /\ seq = IF store = {} THEN 0 ELSE SetMax(IdsOf(store))
    /\ pc = [s \in Slots |-> "idle"]
    /\ item = [s \in Slots |-> None]
    /\ exc = [s \in Slots |-> None]
    /\ slept = [s \in Slots |-> 0]
    /\ nsub = 0
    /\ ret = [i \in Ids |-> 0]
    /\ delivered = {}
    /\ published = {}
    /\ purged = {}
    /\ escaped = {}
    /\ assigned = IdsOf(store)
    /\ peeked = None
    /\ stage = "none"
    /\ schema \in { b \in BOOLEAN : store # {} => b }
    /\ target = None
    /\ hnd = [u \in Updates |-> None]

Init == InitQueue /\ env = DefaultEnv

\* ---------------------------------------------------------------- process

\* the process is started and comes up, as one step: module-level config,
\* then main(): db_init() keeps the rows of an existing table, build_app()
\* registers the slots
Start ==
    /\ ~up
    /\ stage = "none"
    /\ Configured(env)
    /\ up' = TRUE
    /\ target' = TargetChat(env)
    /\ schema' = TRUE
    /\ store' = DbInit(schema, store)
    /\ UNCHANGED << peeked, hnd, env, stage, seq, pc, item, exc, slept, nsub, hist, assigned >>

\* the same start-up, step by step.  Module-level code: read the
\* environment, SystemExit without a token or a target chat
Configure ==
    /\ ~up
    /\ stage \in { "none", "aborted" }
    /\ IF Configured(env)
         THEN stage' = "config" /\ target' = TargetChat(env)
         ELSE stage' = "aborted" /\ target' = None
    /\ UNCHANGED << up, store, seq, core, peeked, hnd, env, schema >>

\* main(): loop.run_until_complete(db_init())
db_init ==
    /\ stage = "config"
    /\ stage' = "db"
    /\ schema' = TRUE
    /\ store' = DbInit(schema, store)
    /\ UNCHANGED << up, seq, core, peeked, hnd, env, target >>

\* main(): build_app() registers the handlers and one daily job per slot,
\* run_polling() starts them
build_app ==
    /\ stage = "db"
    /\ stage' = "none"
    /\ up' = TRUE
    /\ UNCHANGED << store, seq, core, peeked, hnd, env, schema, target >>

\* the process dies during start-up
Kill ==
    /\ stage \in { "config", "db" }
    /\ stage' = "none"
    /\ target' = None
    /\ UNCHANGED << up, store, seq, core, peeked, hnd, env, schema >>

\* the process dies: every coroutine is gone, the committed file stays
Crash ==
    /\ up
    /\ up' = FALSE
    /\ target' = None
    /\ pc' = [s \in Slots |-> "idle"]
    /\ item' = [s \in Slots |-> None]
    /\ exc' = [s \in Slots |-> None]
    /\ slept' = [s \in Slots |-> 0]
    /\ UNCHANGED << peeked, hnd, env, stage, schema, store, seq, nsub, hist, assigned >>

\* --------------------------------------------------------------- enqueue

\* enqueue(kind, payload, caption): INSERT + commit
Enqueued(tbl, sq, kind, payload, caption, orig) ==
    tbl \cup { Row(NextRowid(tbl, sq), kind, payload, OrEmpty(Some(caption)), orig) }

enqueue(kind, payload, caption, orig) ==
    /\ seq < MaxId
    /\ store' = Enqueued(store, seq, kind, payload, caption, orig)
    /\ seq' = NextRowid(store, seq)
    /\ assigned' = assigned \cup { NextRowid(store, seq) }

Submit(kind, payload, caption) ==
    /\ up
    /\ nsub < MaxSubmit
    /\ enqueue(kind, payload, caption, nsub + 1)
    /\ nsub' = nsub + 1
    /\ UNCHANGED << aux, up, pc, item, exc, slept, hist >>

h_text(text) ==
    /\ Strip(text) # Empty
    /\ Submit("text", Strip(text), Empty)

h_photo(caption) == Submit("photo", Ref1, OrEmpty(caption))

h_video(caption) == Submit("video", Ref2, OrEmpty(caption))

\* The same handlers, one await at a time.  A call is a record: h the
\* handler, arg the text or caption of the message, at the statement it is
\* at, kind/payload/caption the arguments of its enqueue call, calls the
\* enqueue calls it has made, id the id its INSERT committed (0: none), acks
\* the replies it has sent.
Call(h, arg) ==
    [h |-> h, arg |-> arg, at |-> "start", kind |-> "", payload |-> Empty,
     caption |-> Empty, calls |-> 0, id |-> 0, acks |-> 0]

\* the dispatcher hands update u to its handler
Receive(u, h, arg) ==
    /\ up
    /\ hnd[u] = None
    /\ hnd' = [hnd EXCEPT ![u] = Some(Call(h, arg))]
    /\ UNCHANGED << up, store, seq, core, peeked, boot >>

\* the handler up to its first await: h_text returns on a blank text, the
\* others take file_id and caption
Prepare(u) ==
    /\ up
    /\ hnd[u] # None
    /\ The(hnd[u]).at = "start"
    /\ LET c == The(hnd[u])
       IN  hnd' = [hnd EXCEPT ![u] = Some(
               CASE c.h = "h_text" ->
                      IF Strip(The(c.arg)) = Empty
                        THEN [c EXCEPT !.at = "done"]
                        ELSE [c EXCEPT !.at = "enqueue", !.kind = "text",
                                       !.payload = Strip(The(c.arg))]
                 [] c.h = "h_photo" ->
                      [c EXCEPT !.at = "enqueue", !.kind = "photo", !.payload = Ref1,
                                !.caption = OrEmpty(c.arg)]
                 [] OTHER ->
                      [c EXCEPT !.at = "enqueue", !.kind = "video", !.payload = Ref2,
                                !.caption = OrEmpty(c.arg)])]
    /\ UNCHANGED << up, store, seq, core, peeked, boot >>

\* await enqueue(...) returns: the row is committed
AwaitEnqueue(u) ==
    /\ up
    /\ hnd[u] # None
    /\ The(hnd[u]).at = "enqueue"
    /\ nsub < MaxSubmit
    /\ LET c == The(hnd[u]) IN enqueue(c.kind, c.payload, c.caption, nsub + 1)
    /\ nsub' = nsub + 1
    /\ hnd' = [hnd EXCEPT ![u] = Some([The(hnd[u]) EXCEPT !.at = "reply", !.calls = @ + 1,
                                                          !.id = NextRowid(store, seq)])]
    /\ UNCHANGED << up, pc, item, exc, slept, hist, peeked, boot >>

\* a handler that catches the error of enqueue and replies all the same
EnqueueRaisesAndReplies(u) ==
    /\ up
    /\ hnd[u] # None
    /\ The(hnd[u]).at = "enqueue"
    /\ hnd' = [hnd EXCEPT ![u] = Some([The(hnd[u]) EXCEPT !.at = "done", !.calls = @ + 1,
                                                          !.acks = @ + 1])]
    /\ UNCHANGED << up, store, seq, core, peeked, boot >>

\* await enqueue(...) raises (sqlite3.Error): nothing is committed and the
\* exception leaves the handler
EnqueueRaises(u) ==
    /\ up
    /\ hnd[u] # None
    /\ The(hnd[u]).at = "enqueue"
    /\ hnd' = [hnd EXCEPT ![u] = Some([The(hnd[u]) EXCEPT !.at = "raised", !.calls = @ + 1])]
    /\ UNCHANGED << up, store, seq, core, peeked, boot >>

\* await update.message.reply_text(...) returns: the handler is done
Reply(u) ==
    /\ up
    /\ hnd[u] # None
    /\ The(hnd[u]).at = "reply"
    /\ hnd' = [hnd EXCEPT ![u] = Some([The(hnd[u]) EXCEPT !.at = "done", !.acks = @ + 1])]
    /\ UNCHANGED << up, store, seq, core, peeked, boot >>

\* await update.message.reply_text(...) raises: no reply was sent
ReplyRaises(u) ==
    /\ up
    /\ hnd[u] # None
    /\ The(hnd[u]).at = "reply"
    /\ hnd' = [hnd EXCEPT ![u] = Some([The(hnd[u]) EXCEPT !.at = "raised"])]
    /\ UNCHANGED << up, store, seq, core, peeked, boot >>

\* DELETE of the head row only
PurgeHeadOnly(tbl) == tbl \ SelectHead(tbl)

\* purge(): DELETE FROM queue + commit
Purge(tbl) == {}

\* /purge
cmd_purge ==
    /\ up
    /\ store' = Purge(store)
    /\ purged' = purged \cup { r.orig : r \in store }
    /\ UNCHANGED << aux, up, seq, pc, item, exc, slept, nsub,
                    ret, delivered, published, escaped, assigned >>

\* ------------------------------------------------------------------ peek

\* ORDER BY id DESC
OrderByIdDesc(tbl) ==
    LET n == Cardinality(tbl)
    IN  CHOOSE f \in [1..n -> tbl] : \A i, j \in 1..n : i < j => f[i].id > f[j].id

\* ORDER BY id ASC: the rows of tbl as a sequence
OrderById(tbl) ==
    LET n == Cardinality(tbl)
    IN  CHOOSE f \in [1..n -> tbl] : \A i, j \in 1..n : i < j => f[i].id < f[j].id

\* LIMIT n: the first n rows; SQLite reads a negative n as no limit
Limit(rows, n) == IF n < 0 \/ n >= Len(rows) THEN rows ELSE SubSeq(rows, 1, n)

\* peek_many(n): SELECT ... ORDER BY id ASC LIMIT n, fetchall; nothing is
\* written
PeekMany(tbl, n) == Limit(OrderById(tbl), n)

\* the n of  /queue  (peek_many(20))
QueueLimit == 20

\* the limits peek_many is called with
Limits == 0..MaxLimit

peek_many(n) ==
    /\ up
    /\ peeked' = Some([n |-> n, rows |-> PeekMany(store, n)])
    /\ UNCHANGED << up, store, seq, core, boot, hnd >>

\* /queue: the preview is built from peek_many(20)
cmd_queue == peek_many(QueueLimit)

\* ---------------------------------------------------------- publish_next

\* a backoff that blocks the event loop: no job starts while one sleeps
FireWhenNoneAsleep(s) ==
    /\ up
    /\ pc[s] = "idle"
    /\ \A t \in Slots : pc[t] # "sleeping"
    /\ pc' = [pc EXCEPT ![s] = "fired"]
    /\ UNCHANGED << aux, up, store, seq, item, exc, slept, nsub, hist, assigned >>

\* a slot of DAILY_SLOTS comes due: the job queue starts publish_next
Fire(s) ==
    /\ up
    /\ pc[s] = "idle"
    /\ pc' = [pc EXCEPT ![s] = "fired"]
    /\ UNCHANGED << aux, up, store, seq, item, exc, slept, nsub, hist, assigned >>

\* publish_next without the  if not item  check: item.id raises on None
DequeueSelectNoCheck(s) ==
    /\ up
    /\ pc[s] = "fired"
    /\ item' = [item EXCEPT ![s] = SelectHead(store)]
    /\ pc' = [pc EXCEPT ![s] = IF SelectHead(store) = None THEN "idle" ELSE "selected"]
    /\ escaped' = IF SelectHead(store) = None THEN escaped \cup { s } ELSE escaped
    /\ UNCHANGED << aux, up, store, seq, exc, slept, nsub,
                    ret, delivered, published, purged, assigned >>

\* dequeue(), first half: SELECT the head; no row: dequeue returns None and
\* publish_next returns
DequeueSelect(s) ==
    /\ up
    /\ pc[s] = "fired"
    /\ item' = [item EXCEPT ![s] = SelectHead(store)]
    /\ pc' = [pc EXCEPT ![s] = IF SelectHead(store) = None THEN "idle" ELSE "selected"]
    /\ UNCHANGED << aux, up, store, seq, exc, slept, nsub, hist, assigned >>

\* a dequeue that returns the row it read without deleting it
DequeueKeepsRow(s) ==
    /\ up
    /\ pc[s] = "selected"
    /\ ret' = [ret EXCEPT ![The(item[s]).id] = @ + 1]
    /\ pc' = [pc EXCEPT ![s] = "sending"]
    /\ UNCHANGED << aux, up, store, seq, item, exc, slept, nsub,
                    delivered, published, purged, escaped, assigned >>

\* DELETE FROM queue without the WHERE clause
DequeueDeleteAll(s) ==
    /\ up
    /\ pc[s] = "selected"
    /\ store' = {}
    /\ ret' = [ret EXCEPT ![The(item[s]).id] = @ + 1]
    /\ pc' = [pc EXCEPT ![s] = "sending"]
    /\ UNCHANGED << aux, up, seq, item, exc, slept, nsub,
                    delivered, published, purged, escaped, assigned >>

\* dequeue(), second half: DELETE the row read by id, commit, return it
DequeueDelete(s) ==
    /\ up
    /\ pc[s] = "selected"
    /\ store' = DeleteId(store, The(item[s]).id)
    /\ ret' = [ret EXCEPT ![The(item[s]).id] = @ + 1]
    /\ pc' = [pc EXCEPT ![s] = "sending"]
    /\ UNCHANGED << aux, up, seq, item, exc, slept, nsub,
                    delivered, published, purged, escaped, assigned >>

\* the if/elif chain of the try block: whether a transport call is made
Dispatches(kind) == kind \in KnownKinds

\* the try block ran to its end (else clause): the item is logged as published
Finish(s) ==
    /\ published' = published \cup { The(item[s]).orig }
    /\ pc' = [pc EXCEPT ![s] = "idle"]
    /\ item' = [item EXCEPT ![s] = None]

\* the kind matches no branch: nothing is sent and nothing is raised
SkipUnknown(s) ==
    /\ up
    /\ pc[s] = "sending"
    /\ ~Dispatches(The(item[s]).kind)
    /\ Finish(s)
    /\ UNCHANGED << aux, up, store, seq, exc, slept, nsub,
                    ret, delivered, purged, escaped, assigned >>

\* a publish_next that puts the item back after sending it
SendOkAndRequeue(s) ==
    /\ up
    /\ pc[s] = "sending"
    /\ Dispatches(The(item[s]).kind)
    /\ delivered' = delivered \cup { The(item[s]).orig }
    /\ Finish(s)
    /\ LET it == The(item[s]) IN enqueue(it.kind, it.payload, it.caption, it.orig)
    /\ UNCHANGED << aux, up, exc, slept, nsub, ret, purged, escaped >>

\* send_message / send_photo / send_video returns
SendOk(s) ==
    /\ up
    /\ pc[s] = "sending"
    /\ Dispatches(The(item[s]).kind)
    /\ delivered' = delivered \cup { The(item[s]).orig }
    /\ Finish(s)
    /\ UNCHANGED << aux, up, store, seq, exc, slept, nsub, ret, purged, escaped, assigned >>

\* send_message / send_photo / send_video raises e
SendFails(s, e) ==
    /\ up
    /\ pc[s] = "sending"
    /\ Dispatches(The(item[s]).kind)
    /\ IF Handler(e) = 0
         THEN /\ escaped' = escaped \cup { s }
              /\ pc' = [pc EXCEPT ![s] = "idle"]
              /\ item' = [item EXCEPT ![s] = None]
              /\ exc' = exc
         ELSE /\ escaped' = escaped
              /\ pc' = [pc EXCEPT ![s] = "failed"]
              /\ item' = item
              /\ exc' = [exc EXCEPT ![s] = Some(e)]
    /\ UNCHANGED << aux, up, store, seq, slept, nsub, ret, delivered, published, purged, assigned >>

\* an except clause that sends the same item again instead of re-inserting it
RetryInPlace(s) ==
    /\ up
    /\ pc[s] = "failed"
    /\ pc' = [pc EXCEPT ![s] = "sending"]
    /\ exc' = [exc EXCEPT ![s] = None]
    /\ UNCHANGED << aux, up, store, seq, item, slept, nsub, hist, assigned >>

\* the last except clause only logs: it does not enqueue
ReenqueueLogsOnly(s) ==
    /\ up
    /\ pc[s] = "failed"
    /\ IF Backoff(The(exc[s])) = None
         THEN /\ UNCHANGED << store, seq, assigned >>
              /\ pc' = [pc EXCEPT ![s] = "idle"]
              /\ item' = [item EXCEPT ![s] = None]
              /\ exc' = [exc EXCEPT ![s] = None]
         ELSE /\ LET it == The(item[s]) IN enqueue(it.kind, it.payload, it.caption, it.orig)
              /\ pc' = [pc EXCEPT ![s] = "sleeping"]
              /\ item' = [item EXCEPT ![s] = None]
              /\ exc' = exc
    /\ slept' = [slept EXCEPT ![s] = 0]
    /\ UNCHANGED << aux, up, nsub, hist >>

\* the except clause: enqueue(item.kind, item.payload, item.caption), then
\* asyncio.sleep(delay) where the clause has one
Reenqueue(s) ==
    /\ up
    /\ pc[s] = "failed"
    /\ LET it == The(item[s]) IN enqueue(it.kind, it.payload, it.caption, it.orig)
    /\ IF Backoff(The(exc[s])) = None
         THEN /\ pc' = [pc EXCEPT ![s] = "idle"]
              /\ item' = [item EXCEPT ![s] = None]
              /\ exc' = [exc EXCEPT ![s] = None]
         ELSE /\ pc' = [pc EXCEPT ![s] = "sleeping"]
              /\ item' = [item EXCEPT ![s] = None]
              /\ exc' = exc
    /\ slept' = [slept EXCEPT ![s] = 0]
    /\ UNCHANGED << aux, up, nsub, hist >>

\* one time unit passes for every invocation that is asleep
Tick ==
    /\ up
    /\ \E s \in Slots : pc[s] = "sleeping" /\ slept[s] < The(Backoff(The(exc[s])))
    /\ slept' = [s \in Slots |->
                   IF pc[s] = "sleeping" /\ slept[s] < The(Backoff(The(exc[s])))
                     THEN slept[s] + 1 ELSE slept[s]]
    /\ UNCHANGED << aux, up, store, seq, pc, item, exc, nsub, hist, assigned >>

\* a sleep that can return before its delay has passed
WakeUpEarly(s) ==
    /\ up
    /\ pc[s] = "sleeping"
    /\ pc' = [pc EXCEPT ![s] = "idle"]
    /\ item' = [item EXCEPT ![s] = None]
    /\ exc' = [exc EXCEPT ![s] = None]
    /\ slept' = [slept EXCEPT ![s] = 0]
    /\ UNCHANGED << aux, up, store, seq, nsub, hist, assigned >>

\* asyncio.sleep(delay) returns once delay has passed; publish_next returns
WakeUp(s) ==
    /\ up
    /\ pc[s] = "sleeping"
    /\ slept[s] >= The(Backoff(The(exc[s])))
    /\ pc' = [pc EXCEPT ![s] = "idle"]
    /\ item' = [item EXCEPT ![s] = None]
    /\ exc' = [exc EXCEPT ![s] = None]
    /\ slept' = [slept EXCEPT ![s] = 0]
    /\ UNCHANGED << aux, up, store, seq, nsub, hist, assigned >>

Next ==
    \/ Start
    \/ Crash
    \/ \E t \in Texts : h_text(t)
    \/ \E c \in PhotoCaptions : h_photo(c)
    \/ \E c \in VideoCaptions : h_video(c)
    \/ cmd_purge
    \/ \E s \in Slots : Fire(s)
    \/ \E s \in Slots : DequeueSelect(s)
    \/ \E s \in Slots : DequeueDelete(s)
    \/ \E s \in Slots : SkipUnknown(s)
    \/ \E s \in Slots : SendOk(s)
    \/ \E s \in Slots, e \in Errors : SendFails(s, e)
    \/ \E s \in Slots : Reenqueue(s)
    \/ Tick
    \/ \E s \in Slots : WakeUp(s)

Spec == Init /\ [][Next]_vars

\* The store operations alone: submissions, /purge, /queue and peek_many
\* with every limit, and publish_next invocations whose transport call
\* succeeds (they take rows out, so the ids of the table have gaps).
NextStore ==
    \/ Start
    \/ Crash
    \/ \E t \in Texts : h_text(t)
    \/ \E c \in PhotoCaptions : h_photo(c)
    \/ \E c \in VideoCaptions : h_video(c)
    \/ cmd_purge
    \/ \E n \in Limits : peek_many(n)
    \/ cmd_queue
    \/ \E s \in Slots : Fire(s)
    \/ \E s \in Slots : DequeueSelect(s)
    \/ \E s \in Slots : DequeueDelete(s)
    \/ \E s \in Slots : SkipUnknown(s)
    \/ \E s \in Slots : SendOk(s)

SpecStore == Init /\ [][NextStore]_vars

\* The start-up in every environment, step by step, with submissions and
\* publish_next invocations whose transport call succeeds in between, so
\* that a restart finds rows in the table.
InitBoot == InitQueue /\ env \in Envs

NextBoot ==
    \/ Configure
    \/ db_init
    \/ build_app
    \/ Kill
    \/ Crash
    \/ \E t \in Texts : h_text(t)
    \/ \E c \in PhotoCaptions : h_photo(c)
    \/ \E c \in VideoCaptions : h_video(c)
    \/ \E s \in Slots : Fire(s)
    \/ \E s \in Slots : DequeueSelect(s)
    \/ \E s \in Slots : DequeueDelete(s)
    \/ \E s \in Slots : SkipUnknown(s)
    \/ \E s \in Slots : SendOk(s)

SpecBoot == InitBoot /\ [][NextBoot]_vars

\* The handlers one await at a time, with publish_next invocations whose
\* transport call succeeds and /purge in between.
NextIngest ==
    \/ Start
    \/ \E u \in Updates, t \in Texts : Receive(u, "h_text", Some(t))
    \/ \E u \in Updates, c \in PhotoCaptions : Receive(u, "h_photo", c)
    \/ \E u \in Updates, c \in VideoCaptions : Receive(u, "h_video", c)
    \/ \E u \in Updates : Prepare(u)
    \/ \E u \in Updates : AwaitEnqueue(u)
    \/ \E u \in Updates : EnqueueRaises(u)
    \/ \E u \in Updates : Reply(u)
    \/ \E u \in Updates : ReplyRaises(u)
    \/ cmd_purge
    \/ \E s \in Slots : Fire(s)
    \/ \E s \in Slots : DequeueSelect(s)
    \/ \E s \in Slots : DequeueDelete(s)
    \/ \E s \in Slots : SkipUnknown(s)
    \/ \E s \in Slots : SendOk(s)

SpecIngest == Init /\ [][NextIngest]_vars

\* Runs without crash and purge in which the outcome of a transport call is
\* fixed by the item: a photo (a file_id the channel rejects) fails on every
\* attempt with any of the errors, everything else is delivered.  Slots
\* keep coming due, and every awaited call of an invocation returns.
Undeliverable == { "photo" }

SendOkLive(s) == SendOk(s) /\ The(item[s]).kind \notin Undeliverable

SendFailsLive(s, e) == SendFails(s, e) /\ The(item[s]).kind \in Undeliverable

NextLive ==
    \/ Start
    \/ \E t \in Texts : h_text(t)
    \/ \E c \in PhotoCaptions : h_photo(c)
    \/ \E c \in VideoCaptions : h_video(c)
    \/ \E s \in Slots : Fire(s)
    \/ \E s \in Slots : DequeueSelect(s)
    \/ \E s \in Slots : DequeueDelete(s)
    \/ \E s \in Slots : SkipUnknown(s)
    \/ \E s \in Slots : SendOkLive(s)
    \/ \E s \in Slots, e \in Errors : SendFailsLive(s, e)
    \/ \E s \in Slots : Reenqueue(s)
    \/ Tick
    \/ \E s \in Slots : WakeUp(s)

Fairness ==
    /\ WF_vars(Start)
    /\ WF_vars(Tick)
    /\ \A s \in Slots :
          /\ WF_vars(Fire(s))
          /\ WF_vars(DequeueSelect(s))
          /\ WF_vars(DequeueDelete(s))
          /\ WF_vars(SkipUnknown(s))
          /\ WF_vars(SendOkLive(s))
          /\ WF_vars(\E e \in Errors : SendFailsLive(s, e))
          /\ WF_vars(Reenqueue(s))
          /\ WF_vars(WakeUp(s))

SpecLive == Init /\ [][NextLive]_vars /\ Fairness

TypeOK ==
    /\ up \in BOOLEAN
    /\ seq \in 0..MaxId
    /\ IdsOf(store) \subseteq 1..seq
    /\ \A s \in Slots : pc[s] \in { "idle", "fired", "selected", "sending", "failed", "sleeping" }

\* ------------------------------------------------------------- properties

\* slot s takes a step of its own invocation and the process stays up
Moves(s) == up /\ up' /\ pc'[s] # pc[s]

\* row new has just been appended at the tail with the content of row it
Reinserted(it) ==
    \E new \in store' \ store :
        /\ Content(new) = Content(it)
        /\ \A q \in store' : q.id <= new.id
        /\ store' = store \cup { new }

\* C1: under every interleaving of concurrent dequeue() calls no two calls
\* return the same stored item: each id is returned by at most one call.
C1_AtMostOneReturn == \A i \in Ids : ret[i] <= 1

\* C2: an item whose kind is none of text, photo, video is handled as a
\* failure: the invocation that holds it does not return unless the item has
\* been re-inserted at the tail, and it is not reported as published.
C2_UnknownKindRequeued ==
    [][\A s \in Slots :
          (Moves(s) /\ pc[s] = "sending" /\ The(item[s]).kind \notin KnownKinds
                    /\ pc'[s] = "idle")
              => (Reinserted(The(item[s])) /\ The(item[s]).orig \notin published')]_vars

C4_DequeueRemovesHead ==
    [][\A s \in Slots :
          (Moves(s) /\ pc[s] = "selected" /\ purged = {}) =>
              /\ The(item[s]) \in store
              /\ \A q \in store : The(item[s]).id <= q.id
              /\ store' = store \ { The(item[s]) }]_vars

\* the backoff the failure classes require: W + 1 after a rate limit that
\* signals W, 5 after a network failure or timeout, none otherwise
C5_Required(e) ==
    CASE e.cls = "RetryAfter"                   -> Some(e.wait + 1)
      [] e.cls \in { "TimedOut", "NetworkError" } -> Some(5)
      [] OTHER                                  -> None

\* C5: after a failed delivery an invocation first re-enqueues the item and
\* then delays its completion by the backoff of the failure class: it does
\* not finish before W + 1 time units (rate limit), 5 time units (network),
\* and finishes without any sleep after any other failure.
C5_BackoffRespected ==
    [][\A s \in Slots :
          Moves(s) =>
            /\ pc[s] = "failed" =>
                  /\ Reinserted(The(item[s]))
                  /\ pc'[s] = (IF C5_Required(The(exc[s])) = None THEN "idle" ELSE "sleeping")
                  /\ slept'[s] = 0
            /\ pc[s] = "sleeping" =>
                  /\ pc'[s] = "idle"
                  /\ slept[s] >= The(C5_Required(The(exc[s])))]_vars

\* an invocation has slept 4 time units after a rate limit with wait 3
C5_Witness ==
    \E s \in Slots :
        /\ pc[s] = "sleeping"
        /\ exc[s] = Some([cls |-> "RetryAfter", wait |-> 3])
        /\ slept[s] = 4

\* C6: an invocation that finds the queue empty returns at once: it makes
\* no transport call, inserts nothing, does not sleep, raises nothing, and
\* the table stays empty.
C6_EmptyQueueNoOp ==
    [][\A s \in Slots :
          (Moves(s) /\ pc[s] = "fired" /\ store = {}) =>
              /\ pc'[s] = "idle"
              /\ store' = {}
              /\ UNCHANGED << seq, assigned, delivered, published, escaped, ret, slept, exc >>]_vars

\* a slot has fired and is about to read a table that deliveries emptied
C6_Witness ==
    \E s \in Slots : up /\ pc[s] = "fired" /\ store = {} /\ delivered # {}

InStore(o) == \E r \in store : r.orig = o
Held(o) == \E s \in Slots : pc[s] \in { "sending", "failed" } /\ The(item[s]).orig = o
InSystem(o) == InStore(o) \/ Held(o)

\* C7 as stated: an item enqueued by a submission leaves the system without
\* being delivered or purged only in a crash that finds an invocation
\* holding it on the failure path, after its dequeue committed and before
\* its re-enqueue committed; a crash at any other point loses no item.
C7_LostOnlyOnFailurePath ==
    [][\A o \in 1..MaxSubmit :
          (InSystem(o) /\ ~InSystem(o)' /\ o \notin delivered' /\ o \notin purged') =>
              /\ up /\ ~up'
              /\ \E s \in Slots : pc[s] = "failed" /\ The(item[s]).orig = o]_vars

\* C7 amended: an item leaves the system without being delivered or purged
\* only (a) in a crash that finds an invocation holding it after its dequeue
\* committed and before its transport call succeeded or its re-enqueue
\* committed, so also while the delivery attempt is pending, or (b) without
\* a crash when its kind is none of text, photo, video and publish_next
\* returns without sending or re-inserting it.
C7_LostOnlyInCrashWindow ==
    [][\A o \in Origs :
          (InSystem(o) /\ ~InSystem(o)' /\ o \notin delivered' /\ o \notin purged') =>
              \/ /\ up /\ ~up'
                 /\ \E s \in Slots :
                       pc[s] \in { "sending", "failed" } /\ The(item[s]).orig = o
              \/ /\ up /\ up'
                 /\ \E s \in Slots :
                       /\ pc[s] = "sending" /\ pc'[s] = "idle"
                       /\ The(item[s]).orig = o
                       /\ The(item[s]).kind \notin KnownKinds]_vars

\* the process is down and a submitted item is neither stored nor delivered
\* nor purged
C7_Witness ==
    /\ ~up
    /\ \E o \in 1..nsub : ~InSystem(o) /\ o \notin delivered /\ o \notin purged

\* C8: while one invocation is in its backoff sleep, every other slot can
\* take the next step of its own invocation (fire, read the head, delete,
\* finish a delivery attempt) and an ingestion enqueue can complete.
C8_SleepDoesNotBlock ==
    \A s, t \in Slots :
        (s # t /\ up /\ pc[s] = "sleeping") =>
            /\ pc[t] = "idle" => ENABLED Fire(t)
            /\ pc[t] = "fired" => ENABLED DequeueSelect(t)
            /\ pc[t] = "selected" => ENABLED DequeueDelete(t)
            /\ pc[t] = "sending" => ENABLED (SendOk(t) \/ SkipUnknown(t))
            /\ (nsub < MaxSubmit /\ seq < MaxId) => ENABLED h_text(TextX)

\* the only submission was dequeued once, failed and was re-enqueued under
\* id 2 by an invocation that is still asleep, and another slot has already
\* dequeued that row and is attempting its delivery
C8_Witness ==
    \E s, t \in Slots :
        /\ s # t /\ pc[s] = "sleeping" /\ pc[t] = "sending"
        /\ slept[s] < The(Backoff(The(exc[s])))
        /\ The(item[t]).id = 2 /\ The(item[t]).orig = 1
        /\ nsub = 1 /\ ret[1] = 1

\* C9: whatever the transport call does, publish_next handles it: no
\* exception leaves an invocation, every raised exception is caught by one
\* of its except clauses, and an idle slot can fire again.
C9_DeliveryErrorsHandled ==
    /\ escaped = {}
    /\ \A s \in Slots : pc[s] \in { "failed", "sleeping" } => Handler(The(exc[s])) # 0
    /\ \A s \in Slots : (up /\ pc[s] = "idle") => ENABLED Fire(s)

\* a delivery failed and was handled (the only submission is back in the
\* table under id 2), and a slot has fired again with no invocation pending
C9_Witness ==
    \E s \in Slots :
        /\ up /\ pc[s] = "fired" /\ \A t \in Slots \ { s } : pc[t] = "idle"
        /\ store = { Row(2, "text", TextX, Empty, 1) }
        /\ nsub = 1 /\ ret[1] = 1 /\ delivered = {}

\* C10: every newly inserted row gets an id greater than every id ever
\* assigned before, whether that row is still stored, was dequeued or was
\* purged, and whether or not the process restarted in between.
C10_IdsNeverReused ==
    [][\A r \in store' \ store : \A i \in assigned : r.id > i]_vars

\* the row of the first submission was purged, and the second submission,
\* inserted into the empty table, has id 2
C10_Witness ==
    /\ purged = { 1 }
    /\ store = { Row(2, "text", TextX, Empty, 2) }

\* C11: from any store state, purge() followed by peek with any limit
\* returns the empty sequence, and a second purge() leaves the store as the
\* first one left it.
C11_PurgeIdempotent ==
    [][purged' # purged =>
          /\ \A n \in Limits \cup { QueueLimit } : PeekMany(store', n) = <<>>
          /\ Purge(store') = store'
          /\ seq' = seq]_vars

\* a /queue after a purge that removed rows has shown the empty queue
C11_Witness ==
    /\ purged # {}
    /\ store = {}
    /\ peeked = Some([n |-> QueueLimit, rows |-> <<>>])

Min(a, b) == IF a <= b THEN a ELSE b

\* C13: for every limit n >= 0 and every store state, peek_many(n) returns
\* the min(n, queue length) rows with the smallest ids in ascending id order
\* and leaves the store unchanged.
C13_PeekReturnsHead ==
    [][peeked' # peeked =>
          LET n == The(peeked').n
              res == The(peeked').rows
          IN  /\ n >= 0
              /\ Len(res) = Min(n, Cardinality(store))
              /\ \A i \in 1..Len(res) : res[i] \in store
              /\ \A i, j \in 1..Len(res) : i < j => res[i].id < res[j].id
              /\ \A r \in store :
                    (\A i \in 1..Len(res) : res[i] # r)
                        => \A i \in 1..Len(res) : res[i].id < r.id
              /\ UNCHANGED << up, store, seq, core >>]_vars

\* a peek whose limit cut the result short, on a table whose smallest id is
\* not 1
C13_Witness ==
    /\ peeked # None
    /\ The(peeked).n = 1
    /\ Len(The(peeked).rows) = 1
    /\ The(peeked).rows[1].id = 2
    /\ Cardinality(store) = 2

\* C12: a process restart followed by db_init() leaves the stored rows,
\* their ids and their order exactly as they were committed before the
\* restart, and db_init() on an already initialised store changes nothing,
\* however often it is called.
C12_RestartKeepsStore ==
    [][/\ (up /\ ~up') => (store' = store /\ seq' = seq)
       /\ (stage = "config" /\ stage' = "db") =>
             /\ schema => (store' = store /\ seq' = seq)
             /\ PeekMany(store', QueueLimit) = PeekMany(store, QueueLimit)
             /\ schema'
             /\ DbInit(schema', store') = store'
             /\ DbInit(schema', DbInit(schema', store')) = store']_vars

\* db_init() has run in a process that was started after submissions had
\* been committed, and the rows are there
C12_Witness ==
    /\ stage = "db"
    /\ nsub = MaxSubmit
    /\ Cardinality(store) = MaxSubmit

\* falsy environment value
Missing(o) == ~Truthy(o)

\* C15: if the bot token is missing, or neither a channel handle nor a
\* numeric channel id is configured, start-up aborts before the store is
\* initialised, before any slot is scheduled and before any enqueue or
\* dequeue can run; when both destination forms are configured, the handle
\* is the target and the numeric id is ignored.
C15_ConfigChecked ==
    [][/\ (Missing(env.token) \/ (Missing(env.channel) /\ Missing(env.channel_id)))
            => /\ ~up'
               /\ stage' \in { "none", "aborted" }
               /\ target' = None
               /\ UNCHANGED << schema, store, seq, core >>
       /\ (Truthy(env.channel) /\ ChannelId(env) # None /\ target' # None)
            => (The(target').form = "handle" /\ The(target').v = The(env.channel))]_vars

\* a start-up with a token and no destination has aborted
C15_Witness ==
    /\ stage = "aborted"
    /\ Truthy(env.token)
    /\ Missing(env.channel)
    /\ Missing(env.channel_id)
    /\ ~schema

\* a process configured with both forms is up and has published
C15_WitnessBoth ==
    /\ up
    /\ Truthy(env.channel)
    /\ ChannelId(env) # None
    /\ target # None
    /\ delivered # {}

\* the call handling update u has returned or raised
Over(u) == hnd[u] # None /\ The(hnd[u]).at \in { "done", "raised" }

\* the enqueue call of update u has committed its row
Committed(u) == The(hnd[u]).id # 0 /\ The(hnd[u]).id \in assigned

\* C14 as stated: every submission handled by h_text, h_photo or h_video
\* results in exactly one enqueue call, the acknowledgment is sent only
\* after that enqueue has committed, and none is sent if the enqueue fails.
C14_ExactlyOneEnqueue ==
    \A u \in Updates :
        /\ Over(u) => The(hnd[u]).calls = 1
        /\ (hnd[u] # None /\ The(hnd[u]).acks > 0) => Committed(u)

\* h_text goes on to enqueue: the stripped text is not empty
Accepted(c) == c.h = "h_text" => Strip(The(c.arg)) # Empty

\* C14, amended: a handled submission results in exactly one enqueue call
\* when it is accepted and in none when it is a blank text; at most one
\* acknowledgment is sent, only after the enqueue has committed, and none
\* after a failed enqueue or for a blank text.
C14_OneEnqueueIfAccepted ==
    \A u \in Updates :
        hnd[u] # None =>
            LET c == The(hnd[u])
            IN  /\ Over(u) => c.calls = (IF Accepted(c) THEN 1 ELSE 0)
                /\ c.calls <= 1
                /\ c.acks <= 1
                /\ c.acks > 0 => (Committed(u) /\ c.calls = 1)
                /\ c.at = "reply" => Committed(u)
                /\ (c.calls = 1 /\ c.id = 0) => (c.acks = 0 /\ c.at = "raised")
                /\ ~Accepted(c) => (c.acks = 0 /\ c.id = 0)

\* one submission acknowledged after its commit, one whose enqueue failed
\* and that got no acknowledgment
C14_Witness ==
    \E u, v \in Updates :
        /\ Over(u) /\ The(hnd[u]).acks = 1 /\ Committed(u)
        /\ Over(v) /\ The(hnd[v]).calls = 1 /\ The(hnd[v]).id = 0 /\ The(hnd[v]).acks = 0

\* invocation s is in the W + 1 time units that follow a rate-limit failure
InRateLimitBackoff(s) ==
    /\ up
    /\ pc[s] = "sleeping"
    /\ The(exc[s]).cls = "RetryAfter"
    /\ slept[s] < The(exc[s]).wait + 1

\* slot t starts a transport call: its dequeue returns an item of a known kind
StartsTransport(t) ==
    /\ up /\ up'
    /\ pc[t] = "selected" /\ pc'[t] = "sending"
    /\ Dispatches(The(item[t]).kind)

\* C16 as stated: after a rate-limit failure that signals wait W, no
\* publish_next invocation of any slot starts a transport call during the
\* W + 1 time units that follow (not even for a row no other call has
\* returned).
C16_NoTransportDuringBackoff ==
    [][(\E s \in Slots : InRateLimitBackoff(s)) =>
          \A t \in Slots : ~(StartsTransport(t) /\ ret[The(item[t]).id] = 0)]_vars

\* C16, amended: during the W + 1 time units that follow a rate-limit
\* failure the failing invocation does not return and its own slot cannot
\* fire again, so that slot starts no transport call; the invocations of the
\* other slots are not held back: a slot that has read the head can
\* complete its dequeue and start its transport call.
C16_OwnSlotWaits ==
    \A s \in Slots :
        InRateLimitBackoff(s) =>
            /\ ~ENABLED WakeUp(s)
            /\ ~ENABLED Fire(s)
            /\ ~ENABLED DequeueDelete(s)
            /\ \A t \in Slots \ { s } : pc[t] = "selected" => ENABLED DequeueDelete(t)

\* two time units into the backoff of a rate limit with wait 3, another
\* slot is sending the very row the sleeping invocation re-inserted
C16_Witness ==
    \E s, t \in Slots :
        /\ s # t
        /\ InRateLimitBackoff(s)
        /\ exc[s] = Some([cls |-> "RetryAfter", wait |-> 3])
        /\ slept[s] = 2
        /\ pc[t] = "sending"
        /\ item[t] = Some(Row(2, "text", TextX, Empty, 1))

\* C17: a row re-inserted after a failed delivery gets a fresh id, larger
\* than the id of every row in the table at that moment and than its own
\* earlier id, which never reappears; so a dequeue reads it only when no row
\* with a smaller id is left in the table: every row that was there when it
\* was re-inserted has been dequeued before (all of them returned by a
\* dequeue call, when no purge has run).
C17_ReinsertedBehindAll ==
    [][\A s \in Slots :
          Moves(s) =>
            /\ pc[s] = "failed" =>
                  \E new \in store' \ store :
                      /\ store' = store \cup { new }
                      /\ Content(new) = Content(The(item[s]))
                      /\ new.id > The(item[s]).id
                      /\ new.id \notin assigned
                      /\ \A q \in store : new.id > q.id
                      /\ The(item[s]).id \notin IdsOf(store')
            /\ (pc[s] = "fired" /\ pc'[s] = "selected") =>
                  \A i \in assigned :
                      i < The(item'[s]).id =>
                          /\ i \notin IdsOf(store)
                          /\ purged = {} => ret[i] >= 1]_vars

\* the first submission failed and was re-inserted under id 3, behind the
\* second one (id 2); id 2 has been dequeued, and only then is the
\* re-inserted row attempted again
C17_Witness ==
    \E s \in Slots :
        /\ pc[s] = "sending"
        /\ item[s] = Some(Row(3, "text", TextX, Empty, 1))
        /\ ret[1] = 1 /\ ret[2] = 1 /\ ret[3] = 1
        /\ nsub = 2
        /\ purged = {}

\* the statements of publish_next in the order one invocation can reach them
Edges ==
    { <<"idle", "fired">>, <<"fired", "idle">>, <<"fired", "selected">>,
      <<"selected", "sending">>, <<"sending", "idle">>, <<"sending", "failed">>,
      <<"failed", "idle">>, <<"failed", "sleeping">>, <<"sleeping", "idle">> }

\* C18: every publish_next invocation performs at most one dequeue, at most
\* one transport call and at most one re-enqueue: it only moves forward
\* through dequeue, transport call and except clause, and back to idle.  It
\* removes at most the one row it read, in its dequeue; it inserts only in
\* the except clause, which it enters only from a transport call that
\* raised, and there it inserts one row; every other step of it, the return
\* of a successful transport call included, leaves the table as it is.
C18_OneOfEach ==
    [][\A s \in Slots :
          Moves(s) =>
            /\ << pc[s], pc'[s] >> \in Edges
            /\ pc[s] = "selected" =>
                  /\ store' = store \ { r \in store : r.id = The(item[s]).id }
                  /\ Cardinality(store \ store') <= 1
                  /\ seq' = seq
            /\ pc[s] = "failed" =>
                  /\ exc[s] # None
                  /\ store \subseteq store'
                  /\ Cardinality(store' \ store) = 1
            /\ pc'[s] = "failed" =>
                  /\ exc'[s] # None
                  /\ The(item[s]).orig \notin delivered' \ delivered
            /\ pc[s] \notin { "selected", "failed" } => (store' = store /\ seq' = seq)
            /\ (pc[s] = "sending" /\ pc'[s] = "idle") =>
                  /\ \A r \in store' : r.id # The(item[s]).id
                  /\ item'[s] = None]_vars

\* the first of two submissions has been delivered by an invocation that
\* has returned; the table holds the second one alone and no third id was
\* ever handed out
C18_Witness ==
    /\ up
    /\ \A s \in Slots : pc[s] = "idle"
    /\ delivered = { 1 }
    /\ store = { Row(2, "photo", Ref1, Cap1, 2) }
    /\ seq = 2
    /\ ret[1] = 1

\* invocation s has dequeued an item and not yet finished delivering it
InFlight(s) == up /\ pc[s] \in { "sending", "failed" }

\* C19: an item that an invocation has dequeued and not yet finished
\* delivering is not in the table, so peek does not show it for any limit,
\* and a purge() that runs during the delivery attempt does not take it
\* from the invocation, which can go on to re-insert it if the delivery
\* fails (the table is then non-empty after a completed purge without a new
\* submission).
C19_PurgeMissesInFlight ==
    [][\A s \in Slots :
          InFlight(s) =>
            /\ The(item[s]).id \notin IdsOf(store)
            /\ \A n \in Limits \cup { QueueLimit } :
                  \A i \in 1..Len(PeekMany(store, n)) :
                      PeekMany(store, n)[i].id # The(item[s]).id
            /\ purged' # purged =>
                  /\ store' = {}
                  /\ item'[s] = item[s]
                  /\ pc'[s] = pc[s]
                  /\ exc'[s] = exc[s]
                  /\ (pc[s] = "failed" /\ seq < MaxId) => ENABLED Reenqueue(s)]_vars

\* the first submission was in flight when a purge removed the second one;
\* its delivery failed and it is back in the table under id 3, with no
\* submission after the purge
C19_Witness ==
    /\ up
    /\ nsub = MaxSubmit
    /\ purged = { 2 }
    /\ delivered = {}
    /\ store = { Row(3, "text", TextX, Empty, 1) }
    /\ ret[1] = 1

\* submission o waits in the table and its delivery succeeds when attempted
GoodWaiting(o) == \E r \in store : r.orig = o /\ r.kind \notin Undeliverable

\* submission o waits in the table and its delivery fails on every attempt
BadWaiting(o) == \E r \in store : r.orig = o /\ r.kind \in Undeliverable

\* an invocation is making a transport call for submission o
Attempting(o) == \E s \in Slots : pc[s] = "sending" /\ The(item[s]).orig = o

\* the id bound of the model stops an invocation from re-inserting its item
Blocked == \E s \in Slots : pc[s] = "failed" /\ seq = MaxId

====
